---- MODULE Spec2Model ----
(***************************************************************************)
(* Model of go/launcher/launcher.go: the web test launcher.                *)
(*                                                                         *)
(* The process registers environment providers (RegisterEnvProviderFunc),  *)
(* then main calls Run, closes the diagnostics and exits with Run's        *)
(* status.  Run is a straight-line sequence of fallible external calls;    *)
(* each call is one action, and pc is the position in main/Run.            *)
(***************************************************************************)
EXTENDS Integers, Sequences, FiniteSets, TLC

(* ------------------------------ bounds --------------------------------- *)
\* Number of RegisterEnvProviderFunc calls made before main starts.
MaxRegs == 2
\* Child exit codes range over 0..MaxExitCode.
MaxExitCode == 3

(* ------------------------- program constants --------------------------- *)
\* return 127 of every setup failure (launcher.go:64,70,76,81,93,98,104)
SetupFailure == 127
\* return -1 when the temp dir cannot be created (launcher.go:111)
TmpDirFailure == 0 - 1
\* return 1, the fallback when the child failed (launcher.go:132)
GenericFailure == 1
\* return 0 (launcher.go:134)
Success == 0
\* syscall.WaitStatus.ExitStatus() of a process that did not exit normally
NotExited == 0 - 1

(* ----------------------------- input sets ------------------------------ *)
\* Names under which providers are registered.
Names == {"local", "remote"}
\* Values of metadata.Environment; "missing" is never registered.
MetaNames == Names \cup {"missing"}
\* The provider functions passed to RegisterEnvProviderFunc.
Factories == {"F1", "F2"}
\* Values of the -test flag.
TestFlags == {"//a:test", "//b:test"}
\* Values of p.Address after the proxy started.
Addrs == {"127.0.0.1:9999", "localhost:8080"}
\* Directory returned by bazel.NewTmpDir.
NewDir == "/tmp/test001"
\* Value of an inherited variable.
Inherited == "inherited"

(* ------------------------------- errors -------------------------------- *)
\* A Go error value: nil, an ordinary error, or an *exec.ExitError that
\* carries the wait status of the child (exited normally with code, or not).
Nil == [type |-> "nil", exited |-> FALSE, code |-> 0]

Error(t) == [type |-> t, exited |-> FALSE, code |-> 0]

ExitError(exited, code) == [type |-> "ExitError", exited |-> exited, code |-> code]

\* The (environment.Env, error) pair before buildEnv has been called.
NoResult == [env |-> "unset", err |-> Nil]

VARIABLES
  pc,            \* position in main / Run
  envProviders,  \* the map envProviders: a function on the registered names
  regLog,        \* history: the RegisterEnvProviderFunc calls, in order
  testFlag,      \* *test
  mEnvironment,  \* m.Environment of the parsed metadata ("unset" before)
  err,           \* the variable err of Run's function scope
  buildResult,   \* what buildEnv returned
  factoryResult, \* history: what the invoked factory returned
  factoryCalls,  \* history: number of invocations of each factory
  env,           \* the variable env of Run ("nil": none)
  setUpCalls,    \* history: number of env.SetUp calls
  setUpErr,      \* history: what env.SetUp returned
  tearDownCalls, \* history: number of env.TearDown calls
  tearDownErr,   \* history: what env.TearDown returned
  deferStack,    \* deferred calls of Run, last registered first
  proxyNews,     \* history: number of proxy.New calls
  proxyStarts,   \* history: number of p.Start calls
  pAddress,      \* p.Address ("" before the proxy started)
  tmpDir,        \* the variable tmpDir of Run
  environ,       \* os.Environ() as read when the command is built
  childEnv,      \* testCmd.Env
  childState,    \* "none", "running", "terminated"
  childLaunches, \* history: number of times the child was started
  childWait,     \* history: how the child terminated (an error value)
  cmdStatus,     \* the variable status of Run: result of testCmd.Run()
  failedStep,    \* history: the step that failed ("none")
  ret,           \* <<v>>: Run's return statement evaluated to v (<< >> before)
  status,        \* <<v>>: the variable status of main holds v (<< >> before)
  closeCalls,    \* history: number of d.Close() calls
  exitArg,       \* <<v>>: os.Exit(v) was called (<< >> before)
  callCtx,       \* <<c>>: env.SetUp(c) or env.TearDown(c) is in progress
  cancelRequested \* an external cancellation (deadline, signal) has arrived

vars == <<pc, envProviders, regLog, testFlag, mEnvironment, err, buildResult,
          factoryResult, factoryCalls, env, setUpCalls, setUpErr,
          tearDownCalls, tearDownErr, deferStack, proxyNews, proxyStarts,
          pAddress, tmpDir, environ, childEnv, childState, childLaunches,
          childWait, cmdStatus, failedStep, ret, status, closeCalls, exitArg,
          callCtx, cancelRequested>>

\* Groups of variables, for UNCHANGED.
registryVars == <<envProviders, regLog>>
buildVars == <<buildResult, factoryResult, factoryCalls, env>>
envVars == <<setUpCalls, setUpErr, tearDownCalls, tearDownErr, deferStack>>
proxyVars == <<proxyNews, proxyStarts, pAddress>>
childVars == <<environ, childEnv, childState, childLaunches, childWait, cmdStatus>>
mainVars == <<status, closeCalls, exitArg>>
ctxVars == <<callCtx, cancelRequested>>

Init ==
  /\ pc = "init"
  /\ envProviders = << >>
  /\ regLog = << >>
  /\ testFlag = "unset"
  /\ mEnvironment = "unset"
  /\ err = Nil
  /\ buildResult = NoResult
  /\ factoryResult = NoResult
  /\ factoryCalls = [f \in Factories |-> 0]
  /\ env = "nil"
  /\ setUpCalls = 0
  /\ setUpErr = Nil
  /\ tearDownCalls = 0
  /\ tearDownErr = Nil
  /\ deferStack = << >>
  /\ proxyNews = 0
  /\ proxyStarts = 0
  /\ pAddress = ""
  /\ tmpDir = ""
  /\ environ = << >>
  /\ childEnv = << >>
  /\ childState = "none"
  /\ childLaunches = 0
  /\ childWait = Nil
  /\ cmdStatus = Nil
  /\ failedStep = "none"
  /\ ret = << >>
  /\ status = << >>
  /\ closeCalls = 0
  /\ exitArg = << >>
  /\ callCtx = << >>
  /\ cancelRequested = FALSE

(* ------------------------- provider registry --------------------------- *)
\* Variant of RegisterEntry: an existing entry is kept (first write wins).
RegisterEntry_FirstWins(providers, name, p) ==
  IF name \in DOMAIN providers
    THEN providers
    ELSE [n \in (DOMAIN providers) \cup {name} |-> IF n = name THEN p ELSE providers[n]]

\* envProviders[name] = p (launcher.go:56): insert or overwrite one entry.
RegisterEntry(providers, name, p) ==
  [n \in (DOMAIN providers) \cup {name} |-> IF n = name THEN p ELSE providers[n]]

\* Variant of Lookup: an unknown name falls back to some registered provider.
Lookup_Default(providers, name) ==
  IF name \in DOMAIN providers
    THEN [p |-> providers[name], ok |-> TRUE]
    ELSE IF DOMAIN providers # {}
      THEN [p |-> providers[CHOOSE n \in DOMAIN providers : TRUE], ok |-> TRUE]
      ELSE [p |-> "nil", ok |-> FALSE]

\* p, ok := envProviders[m.Environment] (launcher.go:138).
Lookup(providers, name) ==
  IF name \in DOMAIN providers
    THEN [p |-> providers[name], ok |-> TRUE]
    ELSE [p |-> "nil", ok |-> FALSE]

\* What a provider function may return: an Env, an error, or both.
\* The Env carries the name of the factory that made it.
FactoryResults(f) ==
  { [env |-> f, err |-> Nil],
    [env |-> "nil", err |-> Error("factory")],
    [env |-> f, err |-> Error("factory")] }

\* Variant of ProviderReturn: the Env is dropped when the factory failed.
ProviderReturn_NilOnError(r) ==
  [env |-> IF r.err # Nil THEN "nil" ELSE r.env, err |-> r.err]

\* return p(m, d) (launcher.go:142): the factory's pair, as it is.
ProviderReturn(r) == [env |-> r.env, err |-> r.err]

\* fmt.Errorf("unknown environment: %s", ...) with a nil Env (launcher.go:140).
UnknownEnvironment == [env |-> "nil", err |-> Error("unknown environment")]

(* ------------------------------ contexts ------------------------------ *)
\* context.Background() (launcher.go:79,85,96): it has no deadline and no
\* cancel function, so its Done channel is never closed.
Background == [cancellable |-> FALSE, done |-> FALSE]

\* What an external cancellation does to a context: only a context derived
\* from a cancellation source becomes done.
Cancelled(c) == IF c.cancellable THEN [c EXCEPT !.done = TRUE] ELSE c

(* ------------------------- teardown obligation ------------------------- *)
\* Variant of TearDownObligation: the defer statement is missing.
TearDownObligation_Never(e) == FALSE

\* Variant of TearDownObligation: the defer statement precedes SetUp's check.
TearDownObligation_Always(e) == TRUE

\* The defer statement of launcher.go:84 is executed only after SetUp
\* returned nil (launcher.go:79-82 returns before it otherwise).
TearDownObligation(e) == e = Nil

\* Variant of DeferredResult: a failed TearDown turns into a setup failure.
DeferredResult_Override(r, tdErr) == IF tdErr # Nil THEN SetupFailure ELSE r

\* The deferred closure (launcher.go:84-88) logs TearDown's error; Run has
\* an unnamed result, so the value of the return statement stays.
DeferredResult(r, tdErr) == r

(* ------------------------- child environment --------------------------- *)
OverlayKeys ==
  <<"WEB_TEST_WEBDRIVER_SERVER", "TEST_TMPDIR", "WEB_TEST_TMPDIR", "WEB_TEST_TARGET">>

OverlayKeySet == {OverlayKeys[i] : i \in DOMAIN OverlayKeys}

EnvKeys == OverlayKeySet \cup {"PATH"}

KeyOrder == <<"PATH">> \o OverlayKeys

\* An inherited environment: the variables of S, each set by the parent.
EnvironOf(S) ==
  SelectSeq([i \in DOMAIN KeyOrder |-> <<KeyOrder[i], Inherited>>],
            LAMBDA kv : kv[1] \in S)

Environs == {EnvironOf(S) : S \in SUBSET EnvKeys}

\* The value a process sees for key k in environment e ("" when unset).
RECURSIVE Getenv(_, _)
Getenv(e, k) ==
  IF e = << >> THEN ""
  ELSE IF Head(e)[1] = k THEN Head(e)[2]
  ELSE Getenv(Tail(e), k)

\* bazel.TestTmpDir(): the harness's TEST_TMPDIR, or the system default.
TestTmpDir(e) == IF Getenv(e, "TEST_TMPDIR") # "" THEN Getenv(e, "TEST_TMPDIR") ELSE "/tmp"

\* Variant of Overlay: the two temp directories are swapped.
Overlay_Swapped(address, dir, harnessDir, test) ==
  [k \in OverlayKeySet |->
     CASE k = "WEB_TEST_WEBDRIVER_SERVER" -> "http://" \o address \o "/wd/hub"
       [] k = "TEST_TMPDIR" -> harnessDir
       [] k = "WEB_TEST_TMPDIR" -> dir
       [] k = "WEB_TEST_TARGET" -> test]

\* The map literal of launcher.go:115-120.
Overlay(address, dir, harnessDir, test) ==
  [k \in OverlayKeySet |->
     CASE k = "WEB_TEST_WEBDRIVER_SERVER" -> "http://" \o address \o "/wd/hub"
       [] k = "TEST_TMPDIR" -> dir
       [] k = "WEB_TEST_TMPDIR" -> harnessDir
       [] k = "WEB_TEST_TARGET" -> test]

\* cmdhelper.BulkUpdateEnv: the entries of e whose key the overlay does not
\* set, followed by the overlay's entries.
BulkUpdateEnv(e, overlay) ==
  SelectSeq(e, LAMBDA kv : kv[1] \notin DOMAIN overlay)
    \o [i \in DOMAIN OverlayKeys |-> <<OverlayKeys[i], overlay[OverlayKeys[i]]>>]

(* ----------------------- exit-status translation ----------------------- *)
\* syscall.WaitStatus.ExitStatus(): the exit code, or -1 if not exited.
ExitStatus(e) == IF e.exited THEN e.code ELSE NotExited

\* Variant of Translate: the fallback is -1, as for the temp dir.
Translate_MinusOne(s, e) ==
  IF s # Nil
    THEN IF e.type = "ExitError" THEN ExitStatus(e) ELSE TmpDirFailure
    ELSE Success

\* Variant of Translate: the fallback return is missing and line 134 follows.
Translate_NoFallback(s, e) ==
  IF s # Nil
    THEN IF e.type = "ExitError" THEN ExitStatus(e) ELSE Success
    ELSE Success

\* launcher.go:125-134.  s is the result of testCmd.Run(); e is the
\* variable err of Run's scope, which is what line 127 inspects.
Translate(s, e) ==
  IF s # Nil
    THEN IF e.type = "ExitError" THEN ExitStatus(e) ELSE GenericFailure
    ELSE Success

\* What testCmd.Run() returns when the child terminated as w.
WaitResult(w) == IF w.exited /\ w.code = 0 THEN Nil ELSE w

\* The ways a started child terminates: exit(K), or killed by a signal.
Terminations ==
  {ExitError(TRUE, k) : k \in 0..MaxExitCode} \cup {ExitError(FALSE, 0)}

(* ------------------------------ actions -------------------------------- *)
\* A return statement of Run with value v after step failed ("none": success).
Return(v, step) ==
  /\ ret' = <<v>>
  /\ failedStep' = step
  /\ pc' = "return"

\* RegisterEnvProviderFunc(name, p), called before main (launcher.go:55-57).
RegisterEnvProviderFunc(name, p) ==
  /\ pc = "init"
  /\ Len(regLog) < MaxRegs
  /\ envProviders' = RegisterEntry(envProviders, name, p)
  /\ regLog' = Append(regLog, <<name, p>>)
  /\ UNCHANGED <<ctxVars, pc, testFlag, mEnvironment, err, buildVars, envVars, proxyVars,
                 tmpDir, childVars, failedStep, ret, mainVars>>

\* main: flag.Parse() and the call of Run (launcher.go:43-48).
MainStart ==
  /\ pc = "init"
  /\ \E t \in TestFlags : testFlag' = t
  /\ pc' = "locateMetadata"
  /\ UNCHANGED <<ctxVars, registryVars, mEnvironment, err, buildVars, envVars, proxyVars,
                 tmpDir, childVars, failedStep, ret, mainVars>>

\* metadataFile, err := bazel.Runfile(*metadataFileFlag) (launcher.go:61-65).
LocateMetadata ==
  /\ pc = "locateMetadata"
  /\ \/ /\ err' = Nil
        /\ pc' = "readMetadata"
        /\ UNCHANGED <<ret, failedStep>>
     \/ /\ err' = Error("runfile")
        /\ Return(SetupFailure, "locateMetadata")
  /\ UNCHANGED <<ctxVars, registryVars, testFlag, mEnvironment, buildVars, envVars,
                 proxyVars, tmpDir, childVars, mainVars>>

\* m, err := metadata.FromFile(metadataFile, nil) (launcher.go:67-71).
ReadMetadata ==
  /\ pc = "readMetadata"
  /\ \/ /\ err' = Nil
        /\ \E n \in MetaNames : mEnvironment' = n
        /\ pc' = "buildEnv"
        /\ UNCHANGED <<ret, failedStep>>
     \/ /\ err' = Error("metadata")
        /\ Return(SetupFailure, "readMetadata")
        /\ UNCHANGED mEnvironment
  /\ UNCHANGED <<ctxVars, registryVars, testFlag, buildVars, envVars, proxyVars, tmpDir,
                 childVars, mainVars>>

\* env, err := buildEnv(m, d) (launcher.go:73-77 and 137-143).
BuildEnv ==
  /\ pc = "buildEnv"
  /\ LET l == Lookup(envProviders, mEnvironment) IN
       \/ /\ ~l.ok
          /\ buildResult' = UnknownEnvironment
          /\ UNCHANGED <<factoryCalls, factoryResult>>
       \/ /\ l.ok
          /\ \E r \in FactoryResults(l.p) :
               /\ factoryResult' = r
               /\ buildResult' = ProviderReturn(r)
          /\ factoryCalls' = [factoryCalls EXCEPT ![l.p] = @ + 1]
  /\ env' = buildResult'.env
  /\ err' = buildResult'.err
  /\ IF buildResult'.err # Nil
       THEN Return(SetupFailure, "buildEnv")
       ELSE pc' = "setUp" /\ UNCHANGED <<ret, failedStep>>
  /\ UNCHANGED <<ctxVars, registryVars, testFlag, mEnvironment, envVars, proxyVars,
                 tmpDir, childVars, mainVars>>

\* The call env.SetUp(context.Background()) (launcher.go:79).
SetUpCall ==
  /\ pc = "setUp"
  /\ setUpCalls' = setUpCalls + 1
  /\ callCtx' = <<Background>>
  /\ pc' = "inSetUp"
  /\ UNCHANGED <<cancelRequested, registryVars, testFlag, mEnvironment, err,
                 buildVars, setUpErr, tearDownCalls, tearDownErr, deferStack,
                 proxyVars, tmpDir, childVars, failedStep, ret, mainVars>>

\* env.SetUp returns and, if it returned nil, the defer statement is
\* executed (launcher.go:79-88).  The err of line 79 is scoped to the if.
SetUpReturn ==
  /\ pc = "inSetUp"
  /\ callCtx' = << >>
  /\ \E e \in {Nil, Error("setup")} :
       /\ setUpErr' = e
       /\ deferStack' = IF TearDownObligation(e)
                          THEN <<"TearDown">> \o deferStack ELSE deferStack
       /\ IF e # Nil
            THEN Return(SetupFailure, "setUp")
            ELSE pc' = "proxyNew" /\ UNCHANGED <<ret, failedStep>>
  /\ UNCHANGED <<cancelRequested, registryVars, testFlag, mEnvironment, err,
                 buildVars, setUpCalls, tearDownCalls, tearDownErr, proxyVars,
                 tmpDir, childVars, mainVars>>

\* Variant of ProxyNew: the error is logged and the return is missing.
ProxyNew_NoReturn ==
  /\ pc = "proxyNew"
  /\ proxyNews' = proxyNews + 1
  /\ \/ /\ err' = Nil
        /\ UNCHANGED failedStep
     \/ /\ err' = Error("proxy.New")
        /\ failedStep' = "proxyNew"
  /\ pc' = "proxyStart"
  /\ UNCHANGED <<ctxVars, registryVars, testFlag, mEnvironment, buildVars, envVars,
                 proxyStarts, pAddress, tmpDir, childVars, ret, mainVars>>

\* p, err := proxy.New(env, m, d) (launcher.go:90-94).
ProxyNew ==
  /\ pc = "proxyNew"
  /\ proxyNews' = proxyNews + 1
  /\ \/ /\ err' = Nil
        /\ pc' = "proxyStart"
        /\ UNCHANGED <<ret, failedStep>>
     \/ /\ err' = Error("proxy.New")
        /\ Return(SetupFailure, "proxyNew")
  /\ UNCHANGED <<ctxVars, registryVars, testFlag, mEnvironment, buildVars, envVars,
                 proxyStarts, pAddress, tmpDir, childVars, mainVars>>

\* p.Start(context.Background()) (launcher.go:96-99); its err is scoped to
\* the if.  A started proxy has an address.
ProxyStart ==
  /\ pc = "proxyStart"
  /\ proxyStarts' = proxyStarts + 1
  /\ \/ /\ \E a \in Addrs : pAddress' = a
        /\ pc' = "locateTest"
        /\ UNCHANGED <<ret, failedStep>>
     \/ /\ Return(SetupFailure, "proxyStart")
        /\ UNCHANGED pAddress
  /\ UNCHANGED <<ctxVars, registryVars, testFlag, mEnvironment, err, buildVars, envVars,
                 proxyNews, tmpDir, childVars, mainVars>>

\* testExe, err := bazel.Runfile(*test) (launcher.go:101-105).
LocateTest ==
  /\ pc = "locateTest"
  /\ \/ /\ err' = Nil
        /\ pc' = "newTmpDir"
        /\ UNCHANGED <<ret, failedStep>>
     \/ /\ err' = Error("runfile")
        /\ Return(SetupFailure, "locateTest")
  /\ UNCHANGED <<ctxVars, registryVars, testFlag, mEnvironment, buildVars, envVars,
                 proxyVars, tmpDir, childVars, mainVars>>

\* tmpDir, err := bazel.NewTmpDir("test") (launcher.go:108-112).
NewTmpDir ==
  /\ pc = "newTmpDir"
  /\ \/ /\ err' = Nil
        /\ tmpDir' = NewDir
        /\ pc' = "command"
        /\ UNCHANGED <<ret, failedStep>>
     \/ /\ err' = Error("tmpdir")
        /\ Return(TmpDirFailure, "newTmpDir")
        /\ UNCHANGED tmpDir
  /\ UNCHANGED <<ctxVars, registryVars, testFlag, mEnvironment, buildVars, envVars,
                 proxyVars, childVars, mainVars>>

\* Variant of Command: testCmd.Start() instead of testCmd.Run(), so Run
\* returns while the child is running.
Command_StartOnly ==
  /\ pc = "command"
  /\ \E e \in Environs :
       /\ environ' = e
       /\ childEnv' = BulkUpdateEnv(e, Overlay(pAddress, tmpDir, TestTmpDir(e), testFlag))
  /\ \/ /\ childState' = "running"
        /\ childLaunches' = childLaunches + 1
        /\ Return(Success, "none")
        /\ UNCHANGED cmdStatus
     \/ /\ cmdStatus' = Error("start")
        /\ Return(Translate(cmdStatus', err), "start")
        /\ UNCHANGED <<childState, childLaunches>>
  /\ UNCHANGED <<ctxVars, registryVars, testFlag, mEnvironment, err, buildVars, envVars,
                 proxyVars, tmpDir, childWait, mainVars>>

\* exec.Command, testCmd.Env and the start of testCmd.Run()
\* (launcher.go:114-125).  If the child cannot be started, Run() returns an
\* error that is not an *exec.ExitError and lines 126-132 follow at once.
Command ==
  /\ pc = "command"
  /\ \E e \in Environs :
       /\ environ' = e
       /\ childEnv' = BulkUpdateEnv(e, Overlay(pAddress, tmpDir, TestTmpDir(e), testFlag))
  /\ \/ /\ childState' = "running"
        /\ childLaunches' = childLaunches + 1
        /\ pc' = "wait"
        /\ UNCHANGED <<cmdStatus, ret, failedStep>>
     \/ /\ cmdStatus' = Error("start")
        /\ Return(Translate(cmdStatus', err), "start")
        /\ UNCHANGED <<childState, childLaunches>>
  /\ UNCHANGED <<ctxVars, registryVars, testFlag, mEnvironment, err, buildVars, envVars,
                 proxyVars, tmpDir, childWait, mainVars>>

\* The child terminates, testCmd.Run() returns, and the result is turned
\* into Run's return value (launcher.go:125-134).
ChildExit ==
  /\ pc = "wait"
  /\ childState = "running"
  /\ \E w \in Terminations :
       /\ childWait' = w
       /\ cmdStatus' = WaitResult(w)
  /\ childState' = "terminated"
  /\ Return(Translate(cmdStatus', err), IF cmdStatus' # Nil THEN "test" ELSE "none")
  /\ UNCHANGED <<ctxVars, registryVars, testFlag, mEnvironment, err, buildVars, envVars,
                 proxyVars, tmpDir, environ, childEnv, childLaunches, mainVars>>

\* A deferred call runs after the return statement: the closure calls
\* env.TearDown(context.Background()) (launcher.go:84-85).
TearDownCall ==
  /\ pc = "return"
  /\ deferStack # << >>
  /\ deferStack' = Tail(deferStack)
  /\ tearDownCalls' = tearDownCalls + 1
  /\ callCtx' = <<Background>>
  /\ pc' = "inTearDown"
  /\ UNCHANGED <<cancelRequested, registryVars, testFlag, mEnvironment, err,
                 buildVars, setUpCalls, setUpErr, tearDownErr, proxyVars, tmpDir,
                 childVars, failedStep, ret, mainVars>>

\* Variant of TearDownReturn: the closure waits for the context to be done.
TearDownReturn_UntilDone ==
  /\ pc = "inTearDown"
  /\ callCtx[1].done
  /\ callCtx' = << >>
  /\ \E e \in {Nil, Error("teardown")} :
       /\ tearDownErr' = e
       /\ ret' = <<DeferredResult(ret[1], e)>>
  /\ pc' = "return"
  /\ UNCHANGED <<cancelRequested, registryVars, testFlag, mEnvironment, err,
                 buildVars, setUpCalls, setUpErr, tearDownCalls, deferStack,
                 proxyVars, tmpDir, childVars, failedStep, mainVars>>

\* env.TearDown returns; its error is logged (launcher.go:85-88).
TearDownReturn ==
  /\ pc = "inTearDown"
  /\ callCtx' = << >>
  /\ \E e \in {Nil, Error("teardown")} :
       /\ tearDownErr' = e
       /\ ret' = <<DeferredResult(ret[1], e)>>
  /\ pc' = "return"
  /\ UNCHANGED <<cancelRequested, registryVars, testFlag, mEnvironment, err,
                 buildVars, setUpCalls, setUpErr, tearDownCalls, deferStack,
                 proxyVars, tmpDir, childVars, failedStep, mainVars>>

\* An external cancellation arrives while SetUp, TearDown or the child is
\* in progress.  Run installs no signal handler and derives no context from
\* a deadline (launcher.go:60-135): only a pending call whose context is
\* cancellable observes it, and the child is left alone.
Cancel ==
  /\ pc \in {"inSetUp", "inTearDown", "wait"}
  /\ ~cancelRequested
  /\ cancelRequested' = TRUE
  /\ callCtx' = [i \in DOMAIN callCtx |-> Cancelled(callCtx[i])]
  /\ UNCHANGED <<pc, registryVars, testFlag, mEnvironment, err, buildVars,
                 envVars, proxyVars, tmpDir, childVars, failedStep, ret, mainVars>>

\* Variant of RunReturns: main exits at once when the status is not 0.
RunReturns_ExitOnFailure ==
  /\ pc = "return"
  /\ deferStack = << >>
  /\ status' = ret
  /\ IF ret # <<Success>>
       THEN pc' = "done" /\ exitArg' = ret
       ELSE pc' = "close" /\ UNCHANGED exitArg
  /\ UNCHANGED <<ctxVars, registryVars, testFlag, mEnvironment, err, buildVars, envVars,
                 proxyVars, tmpDir, childVars, failedStep, ret, closeCalls>>

\* No deferred call is left: Run returns and main assigns status
\* (launcher.go:48).
RunReturns ==
  /\ pc = "return"
  /\ deferStack = << >>
  /\ status' = ret
  /\ pc' = "close"
  /\ UNCHANGED <<ctxVars, registryVars, testFlag, mEnvironment, err, buildVars, envVars,
                 proxyVars, tmpDir, childVars, failedStep, ret, closeCalls, exitArg>>

\* d.Close() (launcher.go:50).
Close ==
  /\ pc = "close"
  /\ closeCalls' = closeCalls + 1
  /\ pc' = "exit"
  /\ UNCHANGED <<ctxVars, registryVars, testFlag, mEnvironment, err, buildVars, envVars,
                 proxyVars, tmpDir, childVars, failedStep, ret, status, exitArg>>

\* os.Exit(status) (launcher.go:51).
Exit ==
  /\ pc = "exit"
  /\ exitArg' = status
  /\ pc' = "done"
  /\ UNCHANGED <<ctxVars, registryVars, testFlag, mEnvironment, err, buildVars, envVars,
                 proxyVars, tmpDir, childVars, failedStep, ret, status, closeCalls>>

Next ==
  \/ \E n \in Names, p \in Factories : RegisterEnvProviderFunc(n, p)
  \/ MainStart
  \/ LocateMetadata
  \/ ReadMetadata
  \/ BuildEnv
  \/ SetUpCall
  \/ SetUpReturn
  \/ ProxyNew
  \/ ProxyStart
  \/ LocateTest
  \/ NewTmpDir
  \/ Command
  \/ ChildExit
  \/ TearDownCall
  \/ TearDownReturn
  \/ RunReturns
  \/ Close
  \/ Exit
  \/ Cancel

Spec == Init /\ [][Next]_vars

\* The steps of main and Run.  They are sequential and each blocks until
\* the call it makes returns (launcher.go:43-135).
RunStep ==
  \/ MainStart
  \/ LocateMetadata
  \/ ReadMetadata
  \/ BuildEnv
  \/ SetUpCall
  \/ SetUpReturn
  \/ ProxyNew
  \/ ProxyStart
  \/ LocateTest
  \/ NewTmpDir
  \/ Command
  \/ ChildExit
  \/ TearDownCall
  \/ TearDownReturn
  \/ RunReturns
  \/ Close
  \/ Exit

\* The process keeps running and every external call eventually returns.
FairSpec == Spec /\ WF_vars(RunStep)

\* Run has returned to main.
Returned == pc \in {"close", "exit", "done"}

TypeOK ==
  /\ pc \in {"init", "locateMetadata", "readMetadata", "buildEnv", "setUp",
             "proxyNew", "proxyStart", "locateTest", "newTmpDir", "command",
             "wait", "return", "close", "exit", "done", "inSetUp", "inTearDown"}
  /\ cancelRequested \in BOOLEAN
  /\ Len(callCtx) = IF pc \in {"inSetUp", "inTearDown"} THEN 1 ELSE 0
  /\ DOMAIN envProviders \subseteq Names
  /\ \A n \in DOMAIN envProviders : envProviders[n] \in Factories
  /\ Len(regLog) <= MaxRegs
  /\ Len(ret) <= 1 /\ Len(status) <= 1 /\ Len(exitArg) <= 1
  /\ Len(deferStack) <= 1

(* ------------------------------ properties ----------------------------- *)
\* env.SetUp has been called and has returned nil.
SetUpSucceeded == setUpCalls = 1 /\ pc # "inSetUp" /\ setUpErr = Nil

\* The factory returned an Environment without error.
EnvironmentCreated == buildResult # NoResult /\ buildResult.env # "nil" /\ buildResult.err = Nil

\* C1: in every run in which SetUp returned nil, TearDown is never invoked
\* more than once, and it has been invoked exactly once when Run has
\* returned, whichever later step failed.
C1_TearDownOnceAfterSetUp ==
  /\ tearDownCalls <= 1
  /\ (Returned /\ SetUpSucceeded) => tearDownCalls = 1

C1_Witness ==
  /\ pc = "done"
  /\ SetUpSucceeded
  /\ failedStep = "proxyStart"
  /\ tearDownCalls = 1

\* C2: when every setup step succeeded and the child exited with code K,
\* Run returns K.
C2_ChildExitCodePropagated ==
  (Returned /\ childState = "terminated" /\ childWait.exited)
     => status = <<childWait.code>>

\* C3: a failure before EnvironmentUp makes Run return 127, with no
\* TearDown, no proxy and no child.
C3_EarlyFailure ==
  failedStep \in {"locateMetadata", "readMetadata", "buildEnv", "setUp"}
     => /\ ret = <<SetupFailure>>
        /\ Returned => status = <<SetupFailure>>
        /\ tearDownCalls = 0
        /\ proxyNews = 0 /\ proxyStarts = 0
        /\ childLaunches = 0 /\ childState = "none"

C3_Witness ==
  /\ pc = "done"
  /\ failedStep = "setUp"
  /\ exitArg = <<SetupFailure>>
  /\ tearDownCalls = 0

\* C4: with an unregistered metadata.Environment, buildEnv fails with the
\* unknown-environment error, no factory is invoked, no Environment is
\* produced, and Run returns 127 without SetUp or TearDown.
C4_UnknownEnvironment ==
  (buildResult # NoResult /\ mEnvironment \notin DOMAIN envProviders)
     => /\ \A f \in Factories : factoryCalls[f] = 0
        /\ buildResult = UnknownEnvironment
        /\ env = "nil"
        /\ setUpCalls = 0 /\ tearDownCalls = 0
        /\ ret = <<SetupFailure>>
        /\ Returned => status = <<SetupFailure>>

C4_Witness ==
  /\ pc = "done"
  /\ DOMAIN envProviders = Names
  /\ mEnvironment = "missing"
  /\ buildResult = UnknownEnvironment
  /\ status = <<SetupFailure>>

\* C5: with metadata.Environment = N registered to factory F, buildEnv
\* invokes F once and no other factory, and returns F's pair unchanged.
C5_ResolveInvokesRegistered ==
  (buildResult # NoResult /\ mEnvironment \in DOMAIN envProviders)
     => /\ \A f \in Factories :
             factoryCalls[f] = IF f = envProviders[mEnvironment] THEN 1 ELSE 0
        /\ buildResult = factoryResult
        /\ env = factoryResult.env
        /\ (pc = "setUp" \/ failedStep = "buildEnv") => err = factoryResult.err

C5_Witness ==
  /\ DOMAIN envProviders = Names
  /\ envProviders["local"] # envProviders["remote"]
  /\ mEnvironment = "remote"
  /\ buildResult # NoResult
  /\ buildResult.env = envProviders["remote"]
  /\ buildResult.err # Nil

\* C6: the status Run returns is 0, 127, 1 or the exit code of the child.
C6_StatusInDocumentedSpace ==
  Returned =>
    status[1] \in {Success, SetupFailure, GenericFailure}
       \cup (IF childState = "terminated" /\ childWait.exited
               THEN {childWait.code} ELSE {})

\* C7: TearDown, failing or not, leaves the value of Run's return statement
\* as it was, and that value is the status main receives.
C7_TearDownKeepsStatus ==
  [][ /\ pc \in {"return", "inTearDown"} => ret' = ret
      /\ status' # status => status' = ret ]_vars

C7_Witness ==
  /\ Returned
  /\ tearDownCalls = 1
  /\ tearDownErr # Nil
  /\ status = <<Success>>

\* C8 as stated: every run that created an Environment has invoked TearDown
\* exactly once when Run has returned, even if SetUp failed.
C8_TearDownOncePerEnvironment ==
  (Returned /\ EnvironmentCreated) => tearDownCalls = 1

\* C8 amended: a run that created an Environment has invoked TearDown
\* exactly once when Run has returned if SetUp succeeded, whichever later
\* step failed, and not at all if SetUp failed.
C8_TearDownIffSetUp ==
  (Returned /\ EnvironmentCreated)
     => /\ setUpCalls = 1
        /\ tearDownCalls = IF setUpErr = Nil THEN 1 ELSE 0

C8_Witness ==
  /\ pc = "done"
  /\ EnvironmentCreated
  /\ setUpErr # Nil
  /\ tearDownCalls = 0

\* Number of entries of e with key k.
Occurrences(e, k) == Cardinality({i \in DOMAIN e : e[i][1] = k})

\* C9: a launched child sees the four overlay keys with the overlay's
\* values, each once, also when the inherited environment defines the key,
\* and sees every other inherited variable unchanged.
C9_ChildEnvironment ==
  childState # "none"
     => /\ Getenv(childEnv, "WEB_TEST_WEBDRIVER_SERVER") = "http://" \o pAddress \o "/wd/hub"
        /\ Getenv(childEnv, "TEST_TMPDIR") = tmpDir
        /\ Getenv(childEnv, "WEB_TEST_TMPDIR") = TestTmpDir(environ)
        /\ Getenv(childEnv, "WEB_TEST_TARGET") = testFlag
        /\ \A k \in OverlayKeySet : Occurrences(childEnv, k) = 1
        /\ \A k \in EnvKeys \ OverlayKeySet :
             /\ Getenv(childEnv, k) = Getenv(environ, k)
             /\ Occurrences(childEnv, k) = Occurrences(environ, k)

C9_Witness ==
  /\ childState = "running"
  /\ \A k \in EnvKeys : Getenv(environ, k) = Inherited
  /\ Getenv(childEnv, "WEB_TEST_TARGET") = testFlag
  /\ Getenv(childEnv, "TEST_TMPDIR") = NewDir
  /\ Getenv(childEnv, "PATH") = Inherited

\* The factory of the most recent registration of n in log ("nil": none).
RECURSIVE LastRegistered(_, _)
LastRegistered(log, n) ==
  IF log = << >> THEN "nil"
  ELSE IF log[Len(log)][1] = n THEN log[Len(log)][2]
  ELSE LastRegistered(SubSeq(log, 1, Len(log) - 1), n)

\* C10: the table holds, for every name, the factory of the most recent
\* registration of that name and nothing else, and that factory is the one
\* buildEnv invokes.
C10_LastWriteWins ==
  /\ DOMAIN envProviders = {n \in Names : LastRegistered(regLog, n) # "nil"}
  /\ \A n \in DOMAIN envProviders : envProviders[n] = LastRegistered(regLog, n)
  /\ (buildResult # NoResult /\ LastRegistered(regLog, mEnvironment) # "nil")
        => factoryCalls[LastRegistered(regLog, mEnvironment)] = 1

C10_Witness ==
  /\ Len(regLog) = 2
  /\ regLog[1][1] = regLog[2][1]
  /\ regLog[1][2] # regLog[2][2]
  /\ mEnvironment = regLog[1][1]
  /\ factoryCalls[regLog[2][2]] = 1
  /\ factoryCalls[regLog[1][2]] = 0

\* The statuses Run returns when the child ran and reported failure; err
\* is nil at launcher.go:127 because bazel.NewTmpDir succeeded.
ChildFailureStatuses ==
  {Translate(WaitResult(w), Nil) : w \in {t \in Terminations : WaitResult(t) # Nil}}

\* C11 as stated: when the child cannot be started, Run returns a status
\* that no failed child produces, and TearDown has been invoked once.
C11_LaunchFailureDistinct ==
  (Returned /\ failedStep \in {"locateTest", "start"})
     => /\ status[1] \notin ChildFailureStatuses
        /\ tearDownCalls = 1

\* C11 amended: an unresolved test executable makes Run return 127, a child
\* that cannot be started makes Run return the generic status 1; in both
\* cases no child runs and TearDown has been invoked once when Run returns.
C11_LaunchFailureStatus ==
  /\ failedStep = "locateTest" => ret = <<SetupFailure>>
  /\ failedStep = "start" => ret = <<GenericFailure>> /\ cmdStatus.type = "start"
  /\ failedStep \in {"locateTest", "start"}
       => /\ childLaunches = 0 /\ childState = "none"
          /\ Returned => status = ret /\ tearDownCalls = 1

C11_Witness ==
  /\ pc = "done"
  /\ failedStep = "start"
  /\ status = <<GenericFailure>>
  /\ status[1] \in ChildFailureStatuses
  /\ tearDownCalls = 1

\* C12: TearDown is called only when the child is not running: it has
\* terminated, or the run was aborted before it was started; and no child
\* is started once TearDown has been called.
C12_TearDownAfterChild ==
  [][ /\ tearDownCalls' # tearDownCalls
         => \/ childState = "terminated"
            \/ childState = "none" /\ childLaunches = 0 /\ failedStep # "none"
      /\ pc' = "inTearDown" => childState' # "running"
      /\ (childState' = "running" /\ childState # "running") => tearDownCalls = 0 ]_vars

C12_Witness ==
  /\ pc = "inTearDown"
  /\ childState = "terminated"
  /\ childLaunches = 1
  /\ tearDownCalls = 1

\* The factories that have been invoked.
Invoked == {f \in Factories : factoryCalls[f] > 0}

\* Each step has run at most once and only after the step before succeeded.
StepsGated ==
  /\ \A f \in Factories : factoryCalls[f] <= 1
  /\ Cardinality(Invoked) <= 1
  /\ setUpCalls <= 1 /\ proxyNews <= 1 /\ proxyStarts <= 1 /\ childLaunches <= 1
  /\ Invoked # {} => mEnvironment \in MetaNames
  /\ setUpCalls = 1 => Invoked # {} /\ EnvironmentCreated
  /\ proxyNews = 1 => SetUpSucceeded
  /\ proxyStarts = 1 => proxyNews = 1 /\ failedStep # "proxyNew"
  /\ childLaunches = 1 => proxyStarts = 1 /\ pAddress \in Addrs /\ tmpDir = NewDir

\* A failure is final: no forward step follows it.
NoStepAfterFailure ==
  failedStep # "none"
     => /\ failedStep' = failedStep
        /\ UNCHANGED <<factoryCalls, setUpCalls, proxyNews, proxyStarts, childLaunches>>

\* C13: the steps run in forward order, each at most once and only after
\* the previous one succeeded, and nothing but teardown and exit follows the
\* first failure.
C13_StrictForwardOrder == []StepsGated /\ [][NoStepAfterFailure]_vars

C13_Witness ==
  /\ pc = "done"
  /\ failedStep = "test"
  /\ Cardinality(Invoked) = 1
  /\ setUpCalls = 1 /\ proxyNews = 1 /\ proxyStarts = 1 /\ childLaunches = 1

\* C14: when proxy.New or p.Start fails after a successful SetUp, no child
\* is launched, Run returns 127 and TearDown has been invoked once.
C14_ProxyFailure ==
  failedStep \in {"proxyNew", "proxyStart"}
     => /\ SetUpSucceeded
        /\ childLaunches = 0 /\ childState = "none"
        /\ ret = <<SetupFailure>>
        /\ Returned => status = <<SetupFailure>> /\ tearDownCalls = 1

C14_Witness ==
  /\ pc = "done"
  /\ failedStep = "proxyNew"
  /\ proxyStarts = 0
  /\ tearDownCalls = 1
  /\ exitArg = <<SetupFailure>>

\* C15: when testCmd.Run() returned an error and the error that line 127
\* inspects is not an *exec.ExitError, Run returns 1.
C15_GenericFallback ==
  (ret # << >> /\ cmdStatus # Nil /\ err.type # "ExitError")
     => /\ ret = <<GenericFailure>>
        /\ Returned => status = <<GenericFailure>>

C15_Witness ==
  /\ Returned
  /\ childWait = ExitError(TRUE, MaxExitCode)
  /\ cmdStatus = childWait
  /\ err = Nil
  /\ status = <<GenericFailure>>

\* C16: an external cancellation that arrives while SetUp or TearDown is in
\* progress reaches that call: the context it was given is done.
C16_CancellationPropagated ==
  (cancelRequested /\ pc \in {"inSetUp", "inTearDown"}) => callCtx[1].done

\* Every step succeeded and the child exited with code 0.
AllStepsSucceeded ==
  /\ failedStep = "none"
  /\ mEnvironment \in DOMAIN envProviders
  /\ EnvironmentCreated
  /\ SetUpSucceeded
  /\ proxyNews = 1 /\ proxyStarts = 1
  /\ tmpDir = NewDir
  /\ childState = "terminated"
  /\ childWait = ExitError(TRUE, 0)
  /\ cmdStatus = Nil

\* C17: Run returns 0 exactly when every step succeeded and the child ran
\* to completion without error, whatever TearDown returned.
C17_ZeroIffSuccess ==
  Returned => (status = <<Success>> <=> AllStepsSucceeded)

C17_Witness ==
  /\ pc = "done"
  /\ AllStepsSucceeded
  /\ tearDownErr # Nil
  /\ exitArg = <<Success>>

\* C18: d.Close() is called once, after Run has returned and every deferred
\* call has completed, and before os.Exit; os.Exit gets the value Run
\* returned.
C18_CloseThenExit ==
  /\ closeCalls <= 1
  /\ closeCalls = 1
       => /\ pc \in {"exit", "done"}
          /\ status # << >> /\ status = ret
          /\ deferStack = << >> /\ callCtx = << >>
  /\ exitArg # << >> => closeCalls = 1 /\ exitArg = ret
  /\ pc = "done" <=> exitArg # << >>

C18_Witness ==
  /\ pc = "done"
  /\ closeCalls = 1
  /\ tearDownCalls = 1
  /\ exitArg = <<TmpDirFailure>>

\* C19: when every external call returns, the run reaches os.Exit with a
\* status, and by then TearDown has been invoked if SetUp succeeded.
C19_Terminates ==
  /\ <>(pc = "done" /\ exitArg # << >>)
  /\ [](pc = "done" => tearDownCalls = IF SetUpSucceeded THEN 1 ELSE 0)

C19_Witness ==
  /\ pc = "done"
  /\ cancelRequested
  /\ SetUpSucceeded
  /\ tearDownCalls = 1
  /\ exitArg # << >>

====
